---- MODULE Spec2Model ----
(***************************************************************************)
(* Model of src/src/ws.rs (bybit-rs): the websocket subscription facade,   *)
(* the one-shot ping and the blocking read/decode/classify/dispatch loop.  *)
(*                                                                         *)
(* One connection slot c holds one call of a pub fn of Stream: the call's  *)
(* arguments, what it handed to Client::wss_connect, the frames read from  *)
(* the socket, the events handed to the handler and the value returned.    *)
(***************************************************************************)
EXTENDS Integers, Sequences, FiniteSets, TLC

VARIABLES
    pc,        \* where each call stands: idle, read, handler, ping_read, done, off
    call,      \* the pub fn called and its handler
    input,     \* the subs vector the caller handed to the pub fn
    attempts,  \* number of calls of Client::wss_connect
    conn,      \* the arguments handed to Client::wss_connect
    sent,      \* frames the program handed to the connection to send
    wsState,   \* tungstenite's state of the socket
    reads,     \* results of stream.read(), oldest first
    calls,     \* events the handler was invoked with, oldest first
    returned,  \* values the handler returned, oldest first
    printed,   \* lines written by println!
    result     \* value returned by the pub fn

vars == <<pc, call, input, attempts, conn, sent, wsState, reads, calls, returned, printed, result>>

----------------------------------------------------------------------------
(* Bounds of the exploration *)

\* frames read from one connection
MaxReads == 3
\* entries of a subs vector handed to ws_orderbook, ws_trades, ws_tickers, ws_klines
MaxSubs == 2
\* frames read from each connection when two event loops run side by side
MaxReadsEach == 2

Conns == {1, 2}

SeqsUpTo(S, n) == UNION {[1..k -> S] : k \in 0..n}

----------------------------------------------------------------------------
(* Values *)

\* Option<u64>
NoneU64 == [some |-> FALSE, val |-> 0]
SomeU64(v) == [some |-> TRUE, val |-> v]

\* Result<()> of errors.rs: Ok(()) or Err(kind, display text)
NoResult == [tag |-> "none", kind |-> "", msg |-> ""]
OkUnit == [tag |-> "Ok", kind |-> "", msg |-> ""]
Err(kind, msg) == [tag |-> "Err", kind |-> kind, msg |-> msg]

\* Category and Option<Category>
Category == {"Linear", "Inverse", "Spot", "Option"}
NoCategory == "None"
OptCategory == Category \cup {NoCategory}

\* WebsocketAPI
Public(p) == [api |-> "Public", cat |-> p]
Private == [api |-> "Private", cat |-> ""]
NoEndpoint == [api |-> "", cat |-> ""]

\* inputs of the facade
ReqIds == {"a1B2c3D4", "Zz9Yy8Xx"}
Symbols == {<<"b", "t", "c">>, <<"E", "t", "H">>}
Depths == {50}
Intervals == {"5"}
ConnIds == {"conn-1", "conn-2"}

----------------------------------------------------------------------------
(* Strings *)

Lower == <<"a","b","c","d","e","f","g","h","i","j","k","l","m",
           "n","o","p","q","r","s","t","u","v","w","x","y","z">>
Upper == <<"A","B","C","D","E","F","G","H","I","J","K","L","M",
           "N","O","P","Q","R","S","T","U","V","W","X","Y","Z">>

\* char::to_uppercase on an ASCII character
to_uppercase_char(ch) ==
    IF \E i \in 1..Len(Lower) : Lower[i] = ch
    THEN Upper[CHOOSE i \in 1..Len(Lower) : Lower[i] = ch]
    ELSE ch

\* the symbol used as the caller wrote it
to_uppercase_missing(sym) == sym

\* str::to_uppercase: a string is a sequence of characters
to_uppercase(sym) == [i \in 1..Len(sym) |-> to_uppercase_char(sym[i])]

\* the characters of a sequence joined into one string
RECURSIVE Concat(_)
Concat(chars) ==
    IF chars = <<>> THEN "" ELSE Head(chars) \o Concat(Tail(chars))

----------------------------------------------------------------------------
(* Request Builder *)

\* Subscription::new(op, args)
Subscription_new(op, args) == [op |-> op, args |-> args]

\* BTreeMap<String, Value> iterates in key order
KeyOrder == <<"args", "op", "req_id">>

\* util::build_json_request: the map's entries as text, in key order
build_json_request(parameters) ==
    LET keys == SelectSeq(KeyOrder, LAMBDA k : k \in DOMAIN parameters)
    IN  [i \in 1..Len(keys) |-> <<keys[i], parameters[keys[i]]>>]

\* the ping request of ws_ping: req_id and op, no args
ping_request(uid) ==
    build_json_request([k \in {"req_id", "op"} |->
        IF k = "req_id" THEN uid ELSE "ping"])

\* Stream::build_subscription
build_subscription(action, uid) ==
    build_json_request([k \in {"req_id", "op", "args"} |->
        CASE k = "req_id" -> uid
          [] k = "op" -> action.op
          [] k = "args" -> action.args])

\* the value a request carries under a key, <<>> when the key is absent
RequestField(request, key) ==
    LET hits == SelectSeq(request, LAMBDA kv : kv[1] = key)
    IN  IF hits = <<>> THEN <<>> ELSE hits[1][2]

HasField(request, key) == \E i \in 1..Len(request) : request[i][1] = key

----------------------------------------------------------------------------
(* Frames *)

\* payload shapes a text frame can have; "" is text that is not JSON
EventShapes == {"orderbook", "position"}
PongShapes == {"pong_public", "pong_private"}

Text(wf, shape, id) == [tag |-> "Text", wf |-> wf, shape |-> shape, id |-> id]
NonText(tag) == [tag |-> tag, wf |-> FALSE, shape |-> "", id |-> ""]
ReadErr(e) == [tag |-> "Err", wf |-> FALSE, shape |-> e, id |-> ""]

Garbage == Text(FALSE, "", "")
UnknownJson == Text(TRUE, "unknown", "")
EventTexts == {Text(TRUE, s, "") : s \in EventShapes}
PongTexts == {Text(TRUE, s, id) : s \in PongShapes, id \in ConnIds}
ControlFrames == {NonText("Binary"), NonText("Ping"), NonText("Pong")}
CloseFrame == NonText("Close")

\* display text of the errors read() and serde_json give
ErrorText(e) ==
    CASE e = "Io" -> "IO error: connection reset"
      [] e = "TimedOut" -> "IO error: timed out"
      [] e = "ConnectionClosed" -> "Connection closed normally"
      [] e = "ReceivedAfterClosing" -> "WebSocket protocol error: Received data after close"
      [] OTHER -> e

JsonSyntaxError == Err("Json", "expected value at line 1 column 1")
PongShapeError == Err("Json", "data did not match any variant of untagged enum PongResponse")

\* serde_json::from_str::<Value>
from_str_Value(msg) == IF msg.wf THEN OkUnit ELSE JsonSyntaxError

\* serde_json::from_value::<WebsocketEvents>: the variant, or "" when none matches
from_value_WebsocketEvents(msg) ==
    CASE msg.shape = "orderbook" -> "OrderBookEvent"
      [] msg.shape = "publicTrade" -> "TradeEvent"
      [] msg.shape = "tickers" -> "TickerEvent"
      [] msg.shape = "kline" -> "KlineEvent"
      [] msg.shape = "position" -> "PositionEvent"
      [] msg.shape = "execution" -> "ExecutionEvent"
      [] msg.shape = "order" -> "OrderEvent"
      [] msg.shape = "wallet" -> "Wallet"
      [] OTHER -> ""

\* serde_json::from_str::<PongResponse>
from_str_PongResponse(msg) ==
    CASE ~msg.wf -> JsonSyntaxError
      [] msg.shape = "pong_public" -> [tag |-> "Ok", kind |-> "PublicPong", msg |-> msg.id]
      [] msg.shape = "pong_private" -> [tag |-> "Ok", kind |-> "PrivatePong", msg |-> msg.id]
      [] OTHER -> PongShapeError

----------------------------------------------------------------------------
(* The socket: tungstenite's WebSocket::read as event_loop and ws_ping use it *)

\* text frames the peer sends: pong replies to a ping request, stream events
\* to a subscribe request, and in both cases JSON of another shape or no JSON
PeerTexts(op) ==
    {Garbage, UnknownJson} \cup (IF op = "ws_ping" THEN PongTexts ELSE EventTexts)

\* a read fails with a timeout only on a connection opened with a read timeout
read_timeouts(timeout) == IF timeout.some THEN {ReadErr("TimedOut")} ELSE {}

\* what one stream.read() can return: any frame or an error while the socket
\* is active; after the peer's close frame only an error
ReadOutcomes(c) ==
    IF wsState[c] = "Active"
    THEN PeerTexts(call[c].op) \cup ControlFrames \cup {CloseFrame}
            \cup {ReadErr("Io")} \cup read_timeouts(conn[c].read_timeout)
    ELSE {ReadErr("ConnectionClosed"), ReadErr("ReceivedAfterClosing")}

\* the socket's state after a read returned r
NextWsState(st, r) ==
    CASE r.tag = "Close" -> "ClosedByPeer"
      [] r.tag = "Err" /\ r.shape \in {"ConnectionClosed", "Io"} -> "Terminated"
      [] OTHER -> st

----------------------------------------------------------------------------
(* Event Loop *)

\* what a step of the loop or of ws_ping decides
\* (out: lines printed; write: frames handed to the stream to send)
Return(res) ==
    [next |-> "return", result |-> res, event |-> "", out |-> <<>>, write |-> <<>>]
Invoke(ev) ==
    [next |-> "call", result |-> NoResult, event |-> ev, out |-> <<>>, write |-> <<>>]
Continue ==
    [next |-> "continue", result |-> NoResult, event |-> "", out |-> <<>>, write |-> <<>>]

\* handle_msg with the decode error swallowed instead of returned
handle_msg_skips_undecodable(msg) ==
    IF from_str_Value(msg).tag = "Err" THEN Return(OkUnit)
    ELSE IF from_value_WebsocketEvents(msg) # ""
         THEN Invoke(from_value_WebsocketEvents(msg))
         ELSE Return(OkUnit)

\* handle_msg with the classified event dropped instead of handed to parser
handle_msg_drops_event(msg) ==
    IF from_str_Value(msg).tag = "Err" THEN Return(from_str_Value(msg))
    ELSE Return(OkUnit)

\* handle_msg with from_value::<WebsocketEvents>(..)? instead of if let Ok(..)
handle_msg_unknown_is_error(msg) ==
    IF from_str_Value(msg).tag = "Err" THEN Return(from_str_Value(msg))
    ELSE IF from_value_WebsocketEvents(msg) # ""
         THEN Invoke(from_value_WebsocketEvents(msg))
         ELSE Return(Err("Json", "data did not match any variant of untagged enum WebsocketEvents"))

\* Stream::handle_msg up to the call of parser: a decode error is returned,
\* a classified event goes to parser, anything else is Ok(())
handle_msg(msg) ==
    IF from_str_Value(msg).tag = "Err" THEN Return(from_str_Value(msg))
    ELSE IF from_value_WebsocketEvents(msg) # ""
         THEN Invoke(from_value_WebsocketEvents(msg))
         ELSE Return(OkUnit)

\* the error of handle_msg returned as it is, without the bail! of the loop
handling_error_unwrapped(e) == e

\* bail!(format!("Error on handling stream message: {}", e))
handling_error(e) == Err("Msg", "Error on handling stream message: " \o e.msg)

\* the iteration with the error of stream.read() dropped instead of returned
event_loop_read_ignores_read_error(r) ==
    CASE r.tag = "Text" ->
            LET h == handle_msg(r)
            IN  CASE h.next = "call" -> h
                  [] h.result.tag = "Err" -> Return(handling_error(h.result))
                  [] OTHER -> Continue
      [] OTHER -> Continue

\* the iteration with a break out of the loop on a close frame
event_loop_read_breaks_on_close(r) ==
    CASE r.tag = "Err" -> Return(Err("Tungstenite", ErrorText(r.shape)))
      [] r.tag = "Close" -> Return(OkUnit)
      [] r.tag = "Text" ->
            LET h == handle_msg(r)
            IN  CASE h.next = "call" -> h
                  [] h.result.tag = "Err" -> Return(handling_error(h.result))
                  [] OTHER -> Continue
      [] OTHER -> Continue

\* the iteration with binary frames decoded as text frames are
event_loop_read_decodes_binary(r) ==
    CASE r.tag = "Err" -> Return(Err("Tungstenite", ErrorText(r.shape)))
      [] r.tag \in {"Text", "Binary"} ->
            LET h == handle_msg(r)
            IN  CASE h.next = "call" -> h
                  [] h.result.tag = "Err" -> Return(handling_error(h.result))
                  [] OTHER -> Continue
      [] OTHER -> Continue

\* Stream::event_loop, one iteration from the value stream.read() gave to the
\* call of the handler or the end of the iteration
\* a loop that writes a heartbeat ping after every frame it skips
event_loop_read_sends_heartbeat(r) ==
    CASE r.tag = "Err" -> Return(Err("Tungstenite", ErrorText(r.shape)))
      [] r.tag = "Text" ->
            LET h == handle_msg(r)
            IN  CASE h.next = "call" -> h
                  [] h.result.tag = "Err" -> Return(handling_error(h.result))
                  [] OTHER -> Continue
      [] OTHER -> [Continue EXCEPT !.write = <<ping_request("a1B2c3D4")>>]

event_loop_read(r) ==
    CASE r.tag = "Err" -> Return(Err("Tungstenite", ErrorText(r.shape)))
      [] r.tag = "Text" ->
            LET h == handle_msg(r)
            IN  CASE h.next = "call" -> h
                  [] h.result.tag = "Err" -> Return(handling_error(h.result))
                  [] OTHER -> Continue
      [] OTHER -> Continue

\* the rest of the iteration with the handler's error ignored
event_loop_handled_ignores_error(ret) == Continue

\* Stream::event_loop and handle_msg, the rest of the iteration once the
\* handler returned ret: parser(event)? and the bail! of the loop
event_loop_handled(ret) ==
    IF ret.tag = "Err" THEN Return(handling_error(ret)) ELSE Continue

\* the closures the facade installs: print the expected variant, ignore the
\* others, return Ok(())
\* an adapter that fails on the variants it does not print
adapter_rejects_unexpected(expects, event) ==
    IF event = expects THEN [ret |-> OkUnit, out |-> <<event>>]
    ELSE [ret |-> Err("Msg", "unexpected event"), out |-> <<>>]

adapter(expects, event) ==
    [ret |-> OkUnit, out |-> IF event = expects THEN <<event>> ELSE <<>>]

\* a handler of the caller may return Ok(()) or an error on any invocation
\* (its own message, or the serde_json error of a parse the handler made with ?)
UserError == Err("Msg", "handler failed")
UserJsonError == Err("Json", "expected value at line 1 column 1")
HandlerOutcomes(handler, event) ==
    IF handler.kind = "adapter" THEN {adapter(handler.expects, event)}
    ELSE {[ret |-> r, out |-> <<>>] : r \in {OkUnit, UserError, UserJsonError}}

Adapter(expects) == [kind |-> "adapter", expects |-> expects]
UserHandler == [kind |-> "user", expects |-> ""]
NoHandler == [kind |-> "none", expects |-> ""]

Last(s) == s[Len(s)]
Upd(f, c, v) == [f EXCEPT ![c] = v]

----------------------------------------------------------------------------
(* ws_ping *)

\* endpoint, request, privacy flag and timeout ws_ping hands to wss_connect
ws_ping_connect(private, uid) ==
    [endpoint |-> IF private THEN Private ELSE Public("Linear"),
     request_body |-> ping_request(uid),
     private |-> private,
     read_timeout |-> NoneU64]

\* ws_ping with the deserialization error of the frame ignored
ws_ping_read_ignores_decode_error(r) ==
    CASE r.tag = "Err" -> Return(Err("Tungstenite", ErrorText(r.shape)))
      [] r.tag = "Text" ->
            LET response == from_str_PongResponse(r)
            IN  IF response.tag = "Err" THEN Return(OkUnit)
                ELSE [Return(OkUnit) EXCEPT !.out =
                        <<"Pong received successfully",
                          "Connection ID: " \o response.msg>>]
      [] OTHER -> Return(OkUnit)

\* ws_ping with the PrivatePong arm printing nothing
ws_ping_read_public_pong_only(r) ==
    CASE r.tag = "Err" -> Return(Err("Tungstenite", ErrorText(r.shape)))
      [] r.tag = "Text" ->
            LET response == from_str_PongResponse(r)
            IN  IF response.tag = "Err" THEN Return(response)
                ELSE IF response.kind = "PublicPong"
                     THEN [Return(OkUnit) EXCEPT !.out =
                            <<"Pong received successfully",
                              "Connection ID: " \o response.msg>>]
                     ELSE Return(OkUnit)
      [] OTHER -> Return(OkUnit)

\* ws_ping from the value of response.read() to its return
ws_ping_read(r) ==
    CASE r.tag = "Err" -> Return(Err("Tungstenite", ErrorText(r.shape)))
      [] r.tag = "Text" ->
            LET response == from_str_PongResponse(r)
            IN  IF response.tag = "Err" THEN Return(response)
                ELSE [Return(OkUnit) EXCEPT !.out =
                        <<"Pong received successfully",
                          "Connection ID: " \o response.msg>>]
      [] OTHER -> Return(OkUnit)

----------------------------------------------------------------------------
(* Subscription Facade: what each operation computes before it connects *)

Chosen(v) == [ok |-> TRUE, val |-> v, err |-> NoResult]
Bail(msg) == [ok |-> FALSE, val |-> "", err |-> Err("Msg", msg)]
BailEndpoint(msg) == [ok |-> FALSE, val |-> NoEndpoint, err |-> Err("Msg", msg)]

\* the match of ws_subscribe with Option falling through to the Linear endpoint
ws_subscribe_endpoint_option_falls_through(category) ==
    CASE category = "Inverse" -> Chosen(Public("Inverse"))
      [] category = "Spot" -> Chosen(Public("Spot"))
      [] OTHER -> Chosen(Public("Linear"))

\* the match of ws_subscribe with the Inverse arm giving the Linear endpoint
ws_subscribe_endpoint_inverse_as_linear(category) ==
    CASE category = "Linear" -> Chosen(Public("Linear"))
      [] category = "Inverse" -> Chosen(Public("Linear"))
      [] category = "Spot" -> Chosen(Public("Spot"))
      [] OTHER -> BailEndpoint("Option has not been implemented")

\* ws_subscribe: the public endpoint of the category, or bail!
ws_subscribe_endpoint(category) ==
    CASE category = "Linear" -> Chosen(Public("Linear"))
      [] category = "Inverse" -> Chosen(Public("Inverse"))
      [] category = "Spot" -> Chosen(Public("Spot"))
      [] OTHER -> BailEndpoint("Option has not been implemented")

\* ws_subscribe: what it hands to wss_connect
ws_subscribe_connect(endpoint, request) ==
    [endpoint |-> endpoint, request_body |-> request,
     private |-> FALSE, read_timeout |-> NoneU64]

\* ws_priv_subscribe: what it hands to wss_connect
ws_priv_subscribe_connect(request) ==
    [endpoint |-> Private, request_body |-> request,
     private |-> TRUE, read_timeout |-> SomeU64(9)]

\* topic lists of the public stream families
ws_orderbook_topics(subs) ==
    [i \in 1..Len(subs) |->
        "orderbook." \o ToString(subs[i][1]) \o "." \o Concat(to_uppercase(subs[i][2]))]
ws_trades_topics(subs) ==
    [i \in 1..Len(subs) |-> "publicTrade." \o Concat(to_uppercase(subs[i]))]
ws_tickers_topics(subs) ==
    [i \in 1..Len(subs) |-> "tickers." \o Concat(to_uppercase(subs[i]))]
ws_klines_topics(subs) ==
    [i \in 1..Len(subs) |->
        "kline." \o subs[i][1] \o "." \o Concat(to_uppercase(subs[i][2]))]

\* the match of ws_position with an arm for Spot, as ws_executions has
ws_position_topic_with_spot(cat) ==
    CASE cat = NoCategory -> Chosen("position")
      [] cat = "Linear" -> Chosen("position.linear")
      [] cat = "Inverse" -> Chosen("position.inverse")
      [] cat = "Spot" -> Chosen("position.spot")
      [] OTHER -> Bail("Option and Spot has not been implemented")

\* topic of the private stream families
ws_position_topic(cat) ==
    CASE cat = NoCategory -> Chosen("position")
      [] cat = "Linear" -> Chosen("position.linear")
      [] cat = "Inverse" -> Chosen("position.inverse")
      [] OTHER -> Bail("Option and Spot has not been implemented")
ws_executions_topic(cat) ==
    CASE cat = NoCategory -> "execution"
      [] cat = "Linear" -> "execution.linear"
      [] cat = "Inverse" -> "execution.inverse"
      [] cat = "Spot" -> "execution.spot"
      [] cat = "Option" -> "execution.option"
ws_orders_topic(cat) ==
    CASE cat = NoCategory -> "order"
      [] cat = "Linear" -> "order.linear"
      [] cat = "Inverse" -> "order.inverse"
      [] cat = "Spot" -> "order.spot"
      [] cat = "Option" -> "order.option"

----------------------------------------------------------------------------
(* State *)

NoConn == [endpoint |-> NoEndpoint, request_body |-> <<>>,
           private |-> FALSE, read_timeout |-> NoneU64]
NoCall == [op |-> "", category |-> NoCategory, handler |-> NoHandler]

Init ==
    /\ pc = [c \in Conns |-> IF c = 1 THEN "idle" ELSE "off"]
    /\ call = [c \in Conns |-> NoCall]
    /\ input = [c \in Conns |-> <<>>]
    /\ attempts = [c \in Conns |-> 0]
    /\ conn = [c \in Conns |-> NoConn]
    /\ sent = [c \in Conns |-> <<>>]
    /\ wsState = [c \in Conns |-> "None"]
    /\ reads = [c \in Conns |-> <<>>]
    /\ calls = [c \in Conns |-> <<>>]
    /\ returned = [c \in Conns |-> <<>>]
    /\ printed = [c \in Conns |-> <<>>]
    /\ result = [c \in Conns |-> NoResult]

\* an operation returns err before it connects
ReturnEarly(c, op, category, err) ==
    /\ call' = Upd(call, c, [op |-> op, category |-> category, handler |-> NoHandler])
    /\ pc' = Upd(pc, c, "done")
    /\ result' = Upd(result, c, err)
    /\ UNCHANGED <<attempts, conn, sent, wsState, reads, calls, returned, printed>>

\* Client::wss_connect(endpoint, Some(request), private, timeout)?: on success
\* the request is the first frame sent and the caller goes on to read; on
\* failure the caller returns the error
wss_connect(c, op, category, handler, args, ok) ==
    /\ call' = Upd(call, c, [op |-> op, category |-> category, handler |-> handler])
    /\ attempts' = Upd(attempts, c, attempts[c] + 1)
    /\ conn' = Upd(conn, c, args)
    /\ IF ok
       THEN /\ wsState' = Upd(wsState, c, "Active")
            /\ sent' = Upd(sent, c, Append(sent[c], args.request_body))
            /\ pc' = Upd(pc, c, IF op = "ws_ping" THEN "ping_read" ELSE "read")
            /\ UNCHANGED result
       ELSE /\ pc' = Upd(pc, c, "done")
            /\ result' = Upd(result, c, Err("Tungstenite", "connect failed"))
            /\ UNCHANGED <<wsState, sent>>
    /\ UNCHANGED <<reads, calls, returned, printed>>

\* Stream::ws_subscribe up to the first read of event_loop
ws_subscribe(c, op, req, category, handler, uid, ok) ==
    LET endpoint == ws_subscribe_endpoint(category)
    IN  IF endpoint.ok
        THEN wss_connect(c, op, category, handler,
                ws_subscribe_connect(endpoint.val, build_subscription(req, uid)), ok)
        ELSE ReturnEarly(c, op, category, endpoint.err)

\* Stream::ws_priv_subscribe up to the first read of event_loop
ws_priv_subscribe(c, op, req, category, handler, uid, ok) ==
    wss_connect(c, op, category, handler,
        ws_priv_subscribe_connect(build_subscription(req, uid)), ok)

----------------------------------------------------------------------------
(* Operations: each pub fn of Stream from its call to its first blocking read *)

ws_ping(c) ==
    /\ pc[c] = "idle"
    /\ UNCHANGED input
    /\ \E private \in BOOLEAN, uid \in ReqIds, ok \in BOOLEAN :
        wss_connect(c, "ws_ping", NoCategory, NoHandler,
                    ws_ping_connect(private, uid), ok)

ws_orderbook(c) ==
    /\ pc[c] = "idle"
    /\ \E subs \in SeqsUpTo(Depths \X Symbols, MaxSubs), category \in Category,
          uid \in ReqIds, ok \in BOOLEAN :
        /\ input' = Upd(input, c, subs)
        /\ ws_subscribe(c, "ws_orderbook",
               Subscription_new("subscribe", ws_orderbook_topics(subs)),
               category, Adapter("OrderBookEvent"), uid, ok)

ws_trades(c) ==
    /\ pc[c] = "idle"
    /\ \E subs \in SeqsUpTo(Symbols, MaxSubs), category \in Category,
          uid \in ReqIds, ok \in BOOLEAN :
        /\ input' = Upd(input, c, subs)
        /\ ws_subscribe(c, "ws_trades",
               Subscription_new("subscribe", ws_trades_topics(subs)),
               category, Adapter("TradeEvent"), uid, ok)

ws_tickers(c) ==
    /\ pc[c] = "idle"
    /\ \E subs \in SeqsUpTo(Symbols, MaxSubs), category \in Category,
          uid \in ReqIds, ok \in BOOLEAN :
        /\ input' = Upd(input, c, subs)
        /\ ws_subscribe(c, "ws_tickers",
               Subscription_new("subscribe", ws_tickers_topics(subs)),
               category, Adapter("TickerEvent"), uid, ok)

ws_klines(c) ==
    /\ pc[c] = "idle"
    /\ \E subs \in SeqsUpTo(Intervals \X Symbols, MaxSubs), category \in Category,
          uid \in ReqIds, ok \in BOOLEAN :
        /\ input' = Upd(input, c, subs)
        /\ ws_subscribe(c, "ws_klines",
               Subscription_new("subscribe", ws_klines_topics(subs)),
               category, Adapter("KlineEvent"), uid, ok)

ws_position(c) ==
    /\ pc[c] = "idle"
    /\ UNCHANGED input
    /\ \E cat \in OptCategory, uid \in ReqIds, ok \in BOOLEAN :
        LET sub_str == ws_position_topic(cat)
        IN  IF sub_str.ok
            THEN ws_priv_subscribe(c, "ws_position",
                    Subscription_new("subscribe", <<sub_str.val>>),
                    cat, Adapter("PositionEvent"), uid, ok)
            ELSE ReturnEarly(c, "ws_position", cat, sub_str.err)

ws_executions(c) ==
    /\ pc[c] = "idle"
    /\ UNCHANGED input
    /\ \E cat \in OptCategory, uid \in ReqIds, ok \in BOOLEAN :
        ws_priv_subscribe(c, "ws_executions",
            Subscription_new("subscribe", <<ws_executions_topic(cat)>>),
            cat, Adapter("ExecutionEvent"), uid, ok)

ws_orders(c) ==
    /\ pc[c] = "idle"
    /\ UNCHANGED input
    /\ \E cat \in OptCategory, uid \in ReqIds, ok \in BOOLEAN :
        ws_priv_subscribe(c, "ws_orders",
            Subscription_new("subscribe", <<ws_orders_topic(cat)>>),
            cat, Adapter("OrderEvent"), uid, ok)

ws_wallet(c) ==
    /\ pc[c] = "idle"
    /\ UNCHANGED input
    /\ \E uid \in ReqIds, ok \in BOOLEAN :
        ws_priv_subscribe(c, "ws_wallet",
            Subscription_new("subscribe", <<"wallet">>),
            NoCategory, Adapter("Wallet"), uid, ok)

\* a caller's own subscription and handler handed to the pub fn ws_subscribe
CallerRequest == Subscription_new("subscribe", <<"tickers.BTCUSDT">>)

caller_ws_subscribe(c) ==
    /\ pc[c] = "idle"
    /\ UNCHANGED input
    /\ \E category \in Category, uid \in ReqIds, ok \in BOOLEAN :
        ws_subscribe(c, "ws_subscribe", CallerRequest, category, UserHandler, uid, ok)

\* a caller's own subscription and handler handed to the pub fn ws_priv_subscribe
caller_ws_priv_subscribe(c) ==
    /\ pc[c] = "idle"
    /\ UNCHANGED input
    /\ \E uid \in ReqIds, ok \in BOOLEAN :
        ws_priv_subscribe(c, "ws_priv_subscribe", CallerRequest, NoCategory,
                          UserHandler, uid, ok)

----------------------------------------------------------------------------
(* Steps: the blocking read of ws_ping, and the iterations of event_loop *)

\* the bound on the frames read from one connection
ReadLimit == IF \E c \in Conns : pc[c] = "off" THEN MaxReads ELSE MaxReadsEach

\* Apply with the end of one loop kept in state all loops share: a return ends
\* every call
Apply_shared_termination(c, step) ==
    /\ printed' = Upd(printed, c, printed[c] \o step.out)
    /\ sent' = Upd(sent, c, sent[c] \o step.write)
    /\ CASE step.next = "return" ->
                /\ pc' = [d \in Conns |-> "done"]
                /\ result' = [d \in Conns |->
                                IF d = c \/ pc[d] # "done" THEN step.result ELSE result[d]]
                /\ UNCHANGED calls
         [] step.next = "call" ->
                /\ pc' = Upd(pc, c, "handler")
                /\ calls' = Upd(calls, c, Append(calls[c], step.event))
                /\ UNCHANGED result
         [] OTHER ->
                /\ pc' = Upd(pc, c, "read")
                /\ UNCHANGED <<calls, result>>

\* applies the decision of a step to the call in slot c
Apply(c, step) ==
    /\ printed' = Upd(printed, c, printed[c] \o step.out)
    /\ sent' = Upd(sent, c, sent[c] \o step.write)
    /\ CASE step.next = "return" ->
                /\ pc' = Upd(pc, c, "done")
                /\ result' = Upd(result, c, step.result)
                /\ UNCHANGED calls
         [] step.next = "call" ->
                /\ pc' = Upd(pc, c, "handler")
                /\ calls' = Upd(calls, c, Append(calls[c], step.event))
                /\ UNCHANGED result
         [] OTHER ->
                /\ pc' = Upd(pc, c, "read")
                /\ UNCHANGED <<calls, result>>

\* ws_ping: response.read() returns, the frame is examined, ws_ping returns
ws_ping_response(c) ==
    /\ pc[c] = "ping_read"
    /\ \E r \in ReadOutcomes(c) :
        /\ reads' = Upd(reads, c, Append(reads[c], r))
        /\ wsState' = Upd(wsState, c, NextWsState(wsState[c], r))
        /\ Apply(c, ws_ping_read(r))
    /\ UNCHANGED <<call, input, attempts, conn, returned>>

\* event_loop: stream.read() returns and the iteration runs up to the call of
\* the handler, the return of the loop or the next read
event_loop(c) ==
    /\ pc[c] = "read"
    /\ Len(reads[c]) < ReadLimit
    /\ \E r \in ReadOutcomes(c) :
        /\ reads' = Upd(reads, c, Append(reads[c], r))
        /\ wsState' = Upd(wsState, c, NextWsState(wsState[c], r))
        /\ Apply(c, event_loop_read(r))
    /\ UNCHANGED <<call, input, attempts, conn, returned>>

\* event_loop: the handler returns and the iteration ends
parser(c) ==
    /\ pc[c] = "handler"
    /\ \E h \in HandlerOutcomes(call[c].handler, Last(calls[c])) :
        /\ returned' = Upd(returned, c, Append(returned[c], h.ret))
        /\ Apply(c, [event_loop_handled(h.ret) EXCEPT !.out = h.out])
    /\ UNCHANGED <<call, input, attempts, conn, wsState, reads>>

Next ==
    \E c \in Conns :
        \/ ws_ping(c)
        \/ ws_orderbook(c)
        \/ ws_trades(c)
        \/ ws_tickers(c)
        \/ ws_klines(c)
        \/ ws_position(c)
        \/ ws_executions(c)
        \/ ws_orders(c)
        \/ ws_wallet(c)
        \/ caller_ws_subscribe(c)
        \/ caller_ws_priv_subscribe(c)
        \/ ws_ping_response(c)
        \/ event_loop(c)
        \/ parser(c)

Spec == Init /\ [][Next]_vars

----------------------------------------------------------------------------
(* Two subscriptions side by side: a public one in slot 1, a private one in slot
   2, each with a handler of the caller, both connected and in event_loop *)

TwoLoopsConn(c) ==
    IF c = 1
    THEN ws_subscribe_connect(Public("Linear"),
                              build_subscription(CallerRequest, "a1B2c3D4"))
    ELSE ws_priv_subscribe_connect(build_subscription(CallerRequest, "Zz9Yy8Xx"))

InitTwo ==
    /\ pc = [c \in Conns |-> "read"]
    /\ call = [c \in Conns |->
                [op |-> IF c = 1 THEN "ws_subscribe" ELSE "ws_priv_subscribe",
                 category |-> IF c = 1 THEN "Linear" ELSE NoCategory,
                 handler |-> UserHandler]]
    /\ input = [c \in Conns |-> <<>>]
    /\ attempts = [c \in Conns |-> 1]
    /\ conn = [c \in Conns |-> TwoLoopsConn(c)]
    /\ sent = [c \in Conns |-> <<TwoLoopsConn(c).request_body>>]
    /\ wsState = [c \in Conns |-> "Active"]
    /\ reads = [c \in Conns |-> <<>>]
    /\ calls = [c \in Conns |-> <<>>]
    /\ returned = [c \in Conns |-> <<>>]
    /\ printed = [c \in Conns |-> <<>>]
    /\ result = [c \in Conns |-> NoResult]

NextTwo ==
    \E c \in Conns :
        \/ event_loop(c)
        \/ parser(c)

SpecTwo == InitTwo /\ [][NextTwo]_vars

----------------------------------------------------------------------------
(* Properties *)

LoopOps == {"ws_orderbook", "ws_trades", "ws_tickers", "ws_klines", "ws_position",
            "ws_executions", "ws_orders", "ws_wallet", "ws_subscribe",
            "ws_priv_subscribe"}

\* the call in slot c connected and entered event_loop
InLoop(c) == call[c].op \in LoopOps /\ wsState[c] # "None"

\* a text frame that decodes and classifies as an event variant
Classifiable(f) == f.tag = "Text" /\ f.wf /\ from_value_WebsocketEvents(f) # ""

\* the events of the classifiable frames of rs, in the order of rs
Dispatched(rs) ==
    LET s == SelectSeq(rs, Classifiable)
    IN  [i \in 1..Len(s) |-> from_value_WebsocketEvents(s[i])]

\* rs is some well-formed classifiable frames followed by one frame that is not JSON
WellFormedThenMalformed(rs) ==
    /\ rs # <<>>
    /\ Last(rs) = Garbage
    /\ \A i \in 1..(Len(rs) - 1) : Classifiable(rs[i])

\* C1: when event_loop has read N classifiable text frames followed by one text
\* frame that is not parseable, the handler has been invoked exactly N times, with
\* the events of those frames in arrival order, and the loop has returned the
\* decode error; there is no (N+1)-th invocation.
C1_DecodeErrorAfterN ==
    \A c \in Conns :
        (InLoop(c) /\ WellFormedThenMalformed(reads[c])) =>
            /\ Len(calls[c]) = Len(reads[c]) - 1
            /\ \A i \in 1..Len(calls[c]) :
                    calls[c][i] = from_value_WebsocketEvents(reads[c][i])
            /\ returned[c] = [i \in 1..Len(calls[c]) |-> OkUnit]
            /\ pc[c] = "done"
            /\ result[c] =
                Err("Msg", "Error on handling stream message: expected value at line 1 column 1")

\* two different events were dispatched in order, then the malformed frame ended the loop
C1_Witness ==
    \E c \in Conns :
        /\ InLoop(c) /\ WellFormedThenMalformed(reads[c])
        /\ calls[c] = <<"PositionEvent", "OrderBookEvent">>
        /\ pc[c] = "done"

\* C2: if the handler reports failure on its k-th invocation, the handler has been
\* invoked exactly k times (no retry), the loop has returned an error, and the last
\* frame read is the one whose dispatch failed: no further frame is read.
C2_HandlerFailureStops ==
    \A c \in Conns : \A k \in 1..Len(returned[c]) :
        returned[c][k].tag = "Err" =>
            /\ Len(calls[c]) = k
            /\ Len(returned[c]) = k
            /\ pc[c] = "done"
            /\ result[c].tag = "Err"
            /\ result[c] =
                Err("Msg", "Error on handling stream message: " \o returned[c][k].msg)
            /\ Classifiable(Last(reads[c]))
            /\ Len(Dispatched(reads[c])) = k

\* the handler failed on its 3rd invocation
C2_Witness ==
    \E c \in Conns :
        /\ InLoop(c)
        /\ Len(returned[c]) = 3
        /\ returned[c][3].tag = "Err"
        /\ returned[c][1].tag = "Ok" /\ returned[c][2].tag = "Ok"
        /\ pc[c] = "done"

\* C3: within one event_loop the handler is invoked once for every classified text
\* frame read, in the order the frames were read, at most one invocation is in
\* flight, and while one is in flight the last frame read is the one being handled
\* (the next frame is not read before the handler returns).
C3_InOrderOneInFlight ==
    \A c \in Conns :
        InLoop(c) =>
            /\ calls[c] = Dispatched(reads[c])
            /\ Len(returned[c]) \in {Len(calls[c]) - 1, Len(calls[c])}
            /\ (pc[c] = "handler") <=> (Len(returned[c]) = Len(calls[c]) - 1)
            /\ pc[c] = "handler" =>
                    /\ Classifiable(Last(reads[c]))
                    /\ Last(calls[c]) = from_value_WebsocketEvents(Last(reads[c]))

\* a second event is in the handler, after the first returned and a dropped frame
C3_Witness ==
    \E c \in Conns :
        /\ InLoop(c)
        /\ pc[c] = "handler"
        /\ reads[c] = <<Text(TRUE, "orderbook", ""), UnknownJson, Text(TRUE, "position", "")>>
        /\ calls[c] = <<"OrderBookEvent", "PositionEvent">>
        /\ Len(returned[c]) = 1

\* C4 as claimed: when event_loop has read a close frame or the read failed, the
\* loop has terminated with a transport error.
C4_CloseOrFailureTerminates ==
    \A c \in Conns :
        (InLoop(c) /\ reads[c] # <<>> /\ Last(reads[c]).tag \in {"Close", "Err"}) =>
            /\ pc[c] = "done"
            /\ result[c].tag = "Err" /\ result[c].kind = "Tungstenite"

\* C4 as amended: a failed read terminates the loop at once with that transport
\* error. A close frame does not terminate it: the frame is ignored like any other
\* non-text frame (no handler call, nothing returned) and the loop reads again;
\* the read after a close frame fails, and the loop then returns that transport
\* error. It never returns success.
C4_FailureTerminatesCloseIgnored ==
    \A c \in Conns :
        (InLoop(c) /\ reads[c] # <<>>) =>
            LET n == Len(reads[c])
                last == reads[c][n]
            IN  /\ last.tag = "Err" =>
                    /\ pc[c] = "done"
                    /\ result[c] = Err("Tungstenite", ErrorText(last.shape))
                /\ last.tag = "Close" =>
                    /\ pc[c] = "read"
                    /\ result[c] = NoResult
                    /\ calls[c] = Dispatched(SubSeq(reads[c], 1, n - 1))
                /\ \A i \in 1..(n - 1) :
                    reads[c][i].tag = "Close" => (i = n - 1 /\ last.tag = "Err")
                /\ result[c].tag # "Ok"

\* a close frame was read and ignored, the next read failed and ended the loop
C4_Witness ==
    \E c \in Conns :
        /\ InLoop(c)
        /\ Len(reads[c]) = 3
        /\ Classifiable(reads[c][1])
        /\ reads[c][2] = CloseFrame
        /\ reads[c][3] = ReadErr("ConnectionClosed")
        /\ pc[c] = "done"
        /\ result[c] = Err("Tungstenite", "Connection closed normally")

\* the three terminal outcomes of event_loop, as the error value returned
TransportErrors ==
    {Err("Tungstenite", ErrorText(e)) :
        e \in {"Io", "TimedOut", "ConnectionClosed", "ReceivedAfterClosing"}}
DecodeErrors == {handling_error(JsonSyntaxError)}
HandlerErrors == {handling_error(UserError), handling_error(UserJsonError)}

\* C5: event_loop never returns a success value: a subscription that connected
\* either still runs or has returned one of transport error, decode error or
\* handler error; ws_subscribe and ws_priv_subscribe never return Ok after a
\* successful connect.
C5_LoopNeverReturnsOk ==
    \A c \in Conns :
        InLoop(c) =>
            /\ result[c].tag # "Ok"
            /\ pc[c] \in {"read", "handler", "done"}
            /\ pc[c] = "done" <=> result[c] # NoResult
            /\ pc[c] = "done" =>
                    result[c] \in TransportErrors \cup DecodeErrors \cup HandlerErrors

\* a loop that dispatched an event and read a close frame ended, with an error
C5_Witness ==
    \E c \in Conns :
        /\ InLoop(c)
        /\ pc[c] = "done"
        /\ Len(calls[c]) >= 1
        /\ \E i \in 1..Len(reads[c]) : reads[c][i] = CloseFrame
        /\ result[c] \in TransportErrors

\* a ws_ping that connected and whose read returned
PingDone(c) == call[c].op = "ws_ping" /\ pc[c] = "done" /\ reads[c] # <<>>

\* a text frame that is neither a public nor a private pong
NotPongText(f) == f.tag = "Text" /\ from_str_PongResponse(f).tag = "Err"

\* C6 as claimed: whatever frame ws_ping read, it returned success; for a text frame
\* that is no pong it returned success and reported no pong.
C6_PingAlwaysOk ==
    \A c \in Conns :
        (PingDone(c) /\ Last(reads[c]).tag # "Err") =>
            /\ result[c] = OkUnit
            /\ NotPongText(Last(reads[c])) => printed[c] = <<>>

\* C6 as amended: ws_ping returns success when the frame it read is not a text
\* frame (reporting no pong) or is a text frame that is a public or private pong
\* (reporting it); when the frame is a text frame that is no pong, ws_ping reports
\* no pong and returns the deserialization error.
C6_PingOkUnlessTextNotPong ==
    \A c \in Conns :
        (PingDone(c) /\ Last(reads[c]).tag # "Err") =>
            LET f == Last(reads[c])
            IN  /\ f.tag # "Text" => (result[c] = OkUnit /\ printed[c] = <<>>)
                /\ (f.tag = "Text" /\ ~NotPongText(f)) =>
                        (result[c] = OkUnit /\ Len(printed[c]) = 2)
                /\ NotPongText(f) =>
                        /\ result[c].tag = "Err" /\ result[c].kind = "Json"
                        /\ printed[c] = <<>>

\* ws_ping read well-formed JSON that is no pong and returned the error
C6_Witness ==
    \E c \in Conns :
        /\ PingDone(c)
        /\ Last(reads[c]) = UnknownJson
        /\ result[c] = PongShapeError
        /\ printed[c] = <<>>

PublicOps == {"ws_orderbook", "ws_trades", "ws_tickers", "ws_klines"}

\* C7: order book, trades, tickers and klines called with Category Option fail with
\* the configuration error and make no connection attempt: wss_connect is not
\* called, no frame is sent and none is read.
C7_OptionRejectedBeforeConnect ==
    \A c \in Conns :
        (call[c].op \in PublicOps /\ call[c].category = "Option") =>
            /\ pc[c] = "done"
            /\ result[c] = Err("Msg", "Option has not been implemented")
            /\ attempts[c] = 0
            /\ conn[c] = NoConn
            /\ wsState[c] = "None"
            /\ sent[c] = <<>>
            /\ reads[c] = <<>>
            /\ calls[c] = <<>>

\* ws_klines was called with Option and returned
C7_Witness ==
    \E c \in Conns :
        /\ call[c].op = "ws_klines"
        /\ call[c].category = "Option"
        /\ pc[c] = "done"
        /\ result[c].tag = "Err"

\* C8: ws_position with Spot or Option fails with the configuration error before any
\* connection attempt; with Linear, Inverse or no category it calls wss_connect once
\* with a subscribe request of exactly one topic: position.linear,
\* position.inverse or position.
C8_PositionCategories ==
    \A c \in Conns :
        call[c].op = "ws_position" =>
            LET cat == call[c].category
            IN  /\ cat \in {"Spot", "Option"} =>
                    /\ pc[c] = "done"
                    /\ result[c] = Err("Msg", "Option and Spot has not been implemented")
                    /\ attempts[c] = 0
                    /\ sent[c] = <<>>
                    /\ reads[c] = <<>>
                /\ cat \in {"Linear", "Inverse", NoCategory} =>
                    /\ attempts[c] = 1
                    /\ RequestField(conn[c].request_body, "op") = "subscribe"
                    /\ RequestField(conn[c].request_body, "args") =
                            CASE cat = "Linear" -> <<"position.linear">>
                              [] cat = "Inverse" -> <<"position.inverse">>
                              [] OTHER -> <<"position">>
                    /\ wsState[c] # "None" => sent[c] = <<conn[c].request_body>>

\* ws_position with Inverse connected, sent its request and dispatched an event
C8_Witness ==
    \E c \in Conns :
        /\ call[c].op = "ws_position"
        /\ call[c].category = "Inverse"
        /\ Len(sent[c]) = 1
        /\ RequestField(sent[c][1], "args") = <<"position.inverse">>
        /\ calls[c] = <<"PositionEvent">>

\* C9: a ws_ping that called wss_connect asked for a bounded read timeout, so its
\* single read cannot block indefinitely.
C9_PingReadTimeoutBounded ==
    \A c \in Conns :
        (call[c].op = "ws_ping" /\ attempts[c] > 0) => conn[c].read_timeout.some

\* C10: every subscription, public or private, that called wss_connect asked for no
\* read timeout, and no event_loop ends because a read timed out.
C10_SubscriptionsNoReadTimeout ==
    \A c \in Conns :
        (call[c].op \in LoopOps /\ attempts[c] > 0) =>
            /\ ~conn[c].read_timeout.some
            /\ \A i \in 1..Len(reads[c]) : reads[c][i] # ReadErr("TimedOut")

PrivateOps == {"ws_position", "ws_executions", "ws_orders", "ws_wallet"}

\* C11: whenever position, execution, order or wallet call wss_connect, whatever
\* the category, it is with the Private endpoint and the privacy flag set; whenever
\* order book, trades, tickers or klines call it, it is with the privacy flag unset
\* and the public endpoint of exactly the category requested, which is Linear,
\* Inverse or Spot.
C11_EndpointRouting ==
    \A c \in Conns :
        attempts[c] > 0 =>
            /\ call[c].op \in PrivateOps =>
                /\ conn[c].endpoint = [api |-> "Private", cat |-> ""]
                /\ conn[c].private = TRUE
            /\ call[c].op \in PublicOps =>
                /\ call[c].category \in {"Linear", "Inverse", "Spot"}
                /\ conn[c].endpoint = [api |-> "Public", cat |-> call[c].category]
                /\ conn[c].private = FALSE

\* ws_tickers with Inverse runs on the Inverse public endpoint
C11_Witness ==
    \E c \in Conns :
        /\ call[c].op = "ws_tickers"
        /\ call[c].category = "Inverse"
        /\ conn[c].endpoint = Public("Inverse")
        /\ ~conn[c].private
        /\ pc[c] = "read"

\* ws_executions with Option runs on the private endpoint
C11_WitnessPrivate ==
    \E c \in Conns :
        /\ call[c].op = "ws_executions"
        /\ call[c].category = "Option"
        /\ conn[c].endpoint = Private
        /\ conn[c].private
        /\ pc[c] = "read"

\* C12: every request sent as the initial frame has a non-empty args sequence,
\* except the ping request, which has no args; for every operation and every
\* caller input, an empty subs vector included.
C12_TopicsNonEmpty ==
    \A c \in Conns : \A i \in 1..Len(sent[c]) :
        IF RequestField(sent[c][i], "op") = "ping"
        THEN ~HasField(sent[c][i], "args")
        ELSE /\ HasField(sent[c][i], "args")
             /\ Len(RequestField(sent[c][i], "args")) >= 1

\* the loop in slot c ended because the handler returned an error
HandlerFailed(c) ==
    InLoop(c) /\ pc[c] = "done" /\ returned[c] # <<>> /\ Last(returned[c]).tag = "Err"

\* the loop in slot c ended because a text frame was not parseable
DecodeFailed(c) ==
    InLoop(c) /\ pc[c] = "done" /\ reads[c] # <<>> /\ Last(reads[c]) = Garbage

\* the loop in slot c ended because the read failed
TransportClosed(c) ==
    InLoop(c) /\ pc[c] = "done" /\ reads[c] # <<>> /\ Last(reads[c]).tag = "Err"

\* C13 as claimed: the error returned after a handler failure identifies handler
\* dispatch: it is none of the errors the loop returns for an unparseable frame or
\* for a transport failure.
C13_HandlerFailureDistinguishable ==
    \A c \in Conns :
        HandlerFailed(c) => result[c] \notin (DecodeErrors \cup TransportErrors)

\* C13 as amended: after a handler failure the loop returns a Msg error whose text
\* is "Error on handling stream message: " followed by the text of the handler's
\* error; after a decode failure it returns the decode error wrapped the same way;
\* a transport error is returned unwrapped. The wrapping tells HandlerFailed and
\* DecodeFailed from TransportClosed, not from each other.
C13_SameWrappingForHandlerAndDecode ==
    \A c \in Conns :
        /\ HandlerFailed(c) =>
            /\ result[c] = Err("Msg", "Error on handling stream message: "
                                        \o Last(returned[c]).msg)
            /\ result[c] \notin TransportErrors
        /\ DecodeFailed(c) =>
            /\ result[c] = Err("Msg", "Error on handling stream message: "
                                        \o "expected value at line 1 column 1")
            /\ result[c] \notin TransportErrors
        /\ TransportClosed(c) =>
            /\ result[c].kind = "Tungstenite"
            /\ result[c].msg = ErrorText(Last(reads[c]).shape)

\* a handler failure whose returned error equals the one of a decode failure
C13_Witness ==
    \E c \in Conns :
        /\ HandlerFailed(c)
        /\ Last(returned[c]) = UserJsonError
        /\ result[c] \in DecodeErrors

\* the frames of rs before the last one
Front(rs) == SubSeq(rs, 1, Len(rs) - 1)

\* C14: a text frame that decodes but classifies as no event variant is dropped:
\* the handler is not invoked for it, nothing is returned, and the loop is back in
\* the read of the next frame.
C14_UnknownTextDropped ==
    \A c \in Conns :
        (InLoop(c) /\ reads[c] # <<>> /\ Last(reads[c]) = UnknownJson) =>
            /\ pc[c] = "read"
            /\ result[c] = NoResult
            /\ calls[c] = Dispatched(Front(reads[c]))
            /\ Len(returned[c]) = Len(calls[c])

\* an unknown frame was dropped, the next frame was read and dispatched, and a
\* second unknown frame was dropped
C14_Witness ==
    \E c \in Conns :
        /\ InLoop(c)
        /\ reads[c] = <<UnknownJson, Text(TRUE, "position", ""), UnknownJson>>
        /\ calls[c] = <<"PositionEvent">>
        /\ pc[c] = "read"
        /\ result[c] = NoResult

\* C18: binary, ping and pong frames are ignored by event_loop: no handler
\* invocation, no error, and the loop is back in the read of the next frame.
C18_ControlFramesIgnored ==
    \A c \in Conns :
        (InLoop(c) /\ reads[c] # <<>> /\ Last(reads[c]) \in ControlFrames) =>
            /\ pc[c] = "read"
            /\ result[c] = NoResult
            /\ calls[c] = Dispatched(Front(reads[c]))
            /\ Len(returned[c]) = Len(calls[c])
            /\ sent[c] = <<conn[c].request_body>>

\* a binary, a ping and a pong frame were read and the loop still runs
C18_Witness ==
    \E c \in Conns :
        /\ InLoop(c)
        /\ reads[c] = <<NonText("Binary"), NonText("Ping"), NonText("Pong")>>
        /\ calls[c] = <<>>
        /\ pc[c] = "read"

\* C15: ws_ping calls wss_connect exactly once and reads exactly one frame (none
\* when the connect failed); when that frame is a well-formed pong, public or
\* private, it returns success and prints the connection identifier of the frame.
C15_PingOneReadExposesConnId ==
    \A c \in Conns :
        call[c].op = "ws_ping" =>
            /\ attempts[c] = 1
            /\ Len(sent[c]) <= 1
            /\ pc[c] = "ping_read" => reads[c] = <<>>
            /\ pc[c] = "done" => Len(reads[c]) = (IF wsState[c] = "None" THEN 0 ELSE 1)
            /\ calls[c] = <<>>
            /\ (PingDone(c) /\ Last(reads[c]) \in PongTexts) =>
                    /\ result[c] = OkUnit
                    /\ printed[c] = <<"Pong received successfully",
                                      "Connection ID: " \o Last(reads[c]).id>>

\* a public ws_ping read a private pong of connection conn-2 and printed its id
C15_Witness ==
    \E c \in Conns :
        /\ PingDone(c)
        /\ ~conn[c].private
        /\ Last(reads[c]) = Text(TRUE, "pong_private", "conn-2")
        /\ result[c] = OkUnit
        /\ printed[c] = <<"Pong received successfully", "Connection ID: conn-2">>

\* everything the model holds about the call in slot c
Slot(c) == <<pc[c], call[c], input[c], attempts[c], conn[c], sent[c], wsState[c],
             reads[c], calls[c], returned[c], printed[c], result[c]>>

\* where a loop stands and what it returned, from the frames read on its own
\* connection and the values its own handler returned
OwnOutcome(rs, rets) ==
    IF rs = <<>> THEN <<"read", NoResult>>
    ELSE LET last == Last(rs)
         IN  CASE last.tag = "Err" ->
                    <<"done", Err("Tungstenite", ErrorText(last.shape))>>
               [] last = Garbage ->
                    <<"done", Err("Msg", "Error on handling stream message: "
                                            \o "expected value at line 1 column 1")>>
               [] Classifiable(last) /\ Len(rets) < Len(Dispatched(rs)) ->
                    <<"handler", NoResult>>
               [] Classifiable(last) /\ Last(rets).tag = "Err" ->
                    <<"done", Err("Msg", "Error on handling stream message: "
                                            \o Last(rets).msg)>>
               [] OTHER -> <<"read", NoResult>>

\* in every state each loop's deliveries and outcome are those of its own frames,
\* and a loop that has ended does not keep the other from reading or returning
LoopsOwnOutcome ==
    \A c \in Conns :
        /\ calls[c] = Dispatched(reads[c])
        /\ <<pc[c], result[c]>> = OwnOutcome(reads[c], returned[c])
        /\ \A d \in Conns \ {c} :
            pc[d] = "done" =>
                /\ (pc[c] = "read" /\ Len(reads[c]) < ReadLimit) => ENABLED event_loop(c)
                /\ pc[c] = "handler" => ENABLED parser(c)

\* a step of one loop changes nothing of the other
OneSlotPerStep ==
    \A c \in Conns : \A d \in Conns \ {c} :
        Slot(c)' # Slot(c) => Slot(d)' = Slot(d)

\* C16: two event loops on separate connections share no state: under every
\* interleaving the handler invocations and the outcome of each loop are those its
\* own frames determine, a step of one loop (its end by a decode, handler or
\* transport error included) changes nothing of the other, and the other can go on.
C16_LoopsIndependent == []LoopsOwnOutcome /\ [][OneSlotPerStep]_vars

\* loop 1 ended on its first frame while loop 2 dispatched an event and read on
C16_Witness ==
    /\ pc[1] = "done" /\ Len(reads[1]) = 1 /\ result[1].tag = "Err"
    /\ pc[2] = "read" /\ Len(reads[2]) = 2
    /\ calls[2] = <<"OrderBookEvent">> /\ returned[2] = <<OkUnit>>
    /\ reads[2][1] = NonText("Ping")

FacadeOps == PublicOps \cup PrivateOps

\* the documented spelling of the symbols and depths the callers hand in
DocSymbol(sym) ==
    CASE sym = <<"b", "t", "c">> -> "BTC"
      [] sym = <<"E", "t", "H">> -> "ETH"
DocDepth(num) == CASE num = 50 -> "50"

\* the documented topic of entry e of the subs vector of a public operation
DocTopic(op, e) ==
    CASE op = "ws_orderbook" -> "orderbook." \o DocDepth(e[1]) \o "." \o DocSymbol(e[2])
      [] op = "ws_trades" -> "publicTrade." \o DocSymbol(e)
      [] op = "ws_tickers" -> "tickers." \o DocSymbol(e)
      [] op = "ws_klines" -> "kline." \o e[1] \o "." \o DocSymbol(e[2])

\* the documented topic of a private operation called with cat
DocPrivateTopic(op, cat) ==
    LET kind == CASE op = "ws_position" -> "position"
                  [] op = "ws_executions" -> "execution"
                  [] op = "ws_orders" -> "order"
                  [] op = "ws_wallet" -> "wallet"
    IN  CASE cat = NoCategory -> kind
          [] cat = "Linear" -> kind \o ".linear"
          [] cat = "Inverse" -> kind \o ".inverse"
          [] cat = "Spot" -> kind \o ".spot"
          [] cat = "Option" -> kind \o ".option"

\* C17: for every facade operation that reaches wss_connect, the request carries op
\* "subscribe" and, for the public families, one topic per entry of the subs vector
\* in the order of the vector, each the documented string with the symbol in upper
\* case whatever the case the caller used; for the private families the one topic
\* execution[.<category>], order[.<category>], position[.<category>] or wallet.
C17_TopicGrammar ==
    \A c \in Conns :
        (call[c].op \in FacadeOps /\ attempts[c] > 0) =>
            LET request == conn[c].request_body
                args == RequestField(request, "args")
            IN  /\ RequestField(request, "op") = "subscribe"
                /\ HasField(request, "args")
                /\ call[c].op \in PublicOps =>
                    /\ Len(args) = Len(input[c])
                    /\ \A i \in 1..Len(args) : args[i] = DocTopic(call[c].op, input[c][i])
                /\ call[c].op \in PrivateOps =>
                    args = <<DocPrivateTopic(call[c].op, call[c].category)>>

\* ws_klines with two entries, a lower-case and a mixed-case symbol, in order
C17_Witness ==
    \E c \in Conns :
        /\ call[c].op = "ws_klines"
        /\ input[c] = <<<<"5", <<"E", "t", "H">>>>, <<"5", <<"b", "t", "c">>>>>>
        /\ sent[c] = <<conn[c].request_body>>
        /\ RequestField(sent[c][1], "args") = <<"kline.5.ETH", "kline.5.BTC">>

\* C19: the adapter installed by a facade operation returns Ok for every event handed
\* to it, expected or not; so a loop started by a facade operation never ends in
\* HandlerFailed, and when it ends its result is a transport error or a decode error.
C19_FacadeAdaptersAlwaysOk ==
    \A c \in Conns :
        call[c].op \in FacadeOps =>
            /\ \A i \in 1..Len(returned[c]) : returned[c][i] = OkUnit
            /\ pc[c] # "handler" => Len(returned[c]) = Len(calls[c])
            /\ ~HandlerFailed(c)
            /\ (InLoop(c) /\ pc[c] = "done") =>
                /\ result[c] \in TransportErrors \cup DecodeErrors
                /\ TransportClosed(c) \/ DecodeFailed(c)

\* a ws_orderbook loop handed an unexpected and an expected event, both answered Ok,
\* the expected one printed, and ended by a decode error
C19_Witness ==
    \E c \in Conns :
        /\ call[c].op = "ws_orderbook"
        /\ calls[c] = <<"PositionEvent", "OrderBookEvent">>
        /\ returned[c] = <<OkUnit, OkUnit>>
        /\ printed[c] = <<"OrderBookEvent">>
        /\ pc[c] = "done"
        /\ result[c] \in DecodeErrors

\* C20: the only frame an operation writes is the request handed to wss_connect: a
\* connection that was opened has sent exactly that request, however many frames were
\* read since by event_loop or ws_ping, and one that was never opened has sent nothing;
\* no step writes once the request is out.
C20_OnlyInitialRequestWritten ==
    \A c \in Conns :
        /\ wsState[c] # "None" => sent[c] = <<conn[c].request_body>>
        /\ wsState[c] = "None" => sent[c] = <<>>
        /\ Len(sent[c]) <= 1
        /\ (pc[c] \in {"read", "handler", "ping_read"} /\ Len(sent[c]) = 1) =>
               \A d \in Conns : ~ENABLED (Next /\ sent'[d] # sent[d] /\ sent[d] # <<>>)

\* a subscription loop that read three frames, a server Ping among them, and has
\* written the subscribe request only
C20_Witness ==
    \E c \in Conns :
        /\ InLoop(c)
        /\ Len(reads[c]) = 3
        /\ \E i \in 1..3 : reads[c][i] = NonText("Ping")
        /\ sent[c] = <<conn[c].request_body>>
        /\ RequestField(sent[c][1], "op") = "subscribe"

====
